---- MODULE Spec2Model ----
(***************************************************************************)
(* Model of the s390 uvdevice command layer:                               *)
(*   rust/pv/src/uvdevice/ffi.rs   wire layout and ioctl numbering         *)
(*   rust/pv_core/src/uvdevice.rs  IoctlCb, ioctl_raw, rc_fmt, send_cmd    *)
(*                                                                         *)
(* 64-bit quantities (ioctl numbers, usize lengths) are kept as four       *)
(* little-endian 16-bit limbs, 32-bit quantities as two limbs, so that no  *)
(* value exceeds a signed 32-bit integer and widths stay exact.            *)
(***************************************************************************)
EXTENDS Integers, Sequences, FiniteSets, TLC

VARIABLES
    pc,            \* position of the caller inside send_cmd
    cmd,           \* the UvCmd passed to the running / last send_cmd
    cb,            \* the IoctlCb of the running / last send_cmd
    prevCb,        \* the block the call before the running / last one left behind
    cbAtIoctl,     \* copy of the block as handed to ioctl()
    cmdAtIoctl,    \* the request number handed to ioctl()
    ioctlRet,      \* return value of ioctl()
    outcome,       \* what send_cmd returned
    calls,         \* number of send_cmd calls started
    ioctls,        \* number of ioctl() calls issued in total
    specErrs,      \* number of calls that ended in Error::Specification
    callIoctls,    \* ioctl() calls issued by the running / last send_cmd
    cmdFmtCalls,   \* UvCmd::rc_fmt invocations of the running / last send_cmd
    cmdFmtRc,      \* rc passed to the last UvCmd::rc_fmt invocation, -1 if none
    unreachableHit,\* an unreachable!() arm of rc_fmt was executed
    nrIn,          \* argument of the last uv_ioctl evaluation, -1 if none
    idOut,         \* result of the last uv_ioctl evaluation
    structIn,      \* wire structure whose layout was last computed
    sizeOut,       \* its size_of
    offsOut        \* its field offsets

vars == <<pc, cmd, cb, prevCb, cbAtIoctl, cmdAtIoctl, ioctlRet, outcome, calls, ioctls,
          specErrs, callIoctls, cmdFmtCalls, cmdFmtRc, unreachableHit,
          nrIn, idOut, structIn, sizeOut, offsOut>>

uvVars == <<pc, cmd, cb, prevCb, cbAtIoctl, cmdAtIoctl, ioctlRet, outcome, calls, ioctls,
            specErrs, callIoctls, cmdFmtCalls, cmdFmtRc, unreachableHit>>

ffiVars == <<nrIn, idOut, structIn, sizeOut, offsOut>>

---------------------------------------------------------------------------
(* Fixed-width integers *)

Pow2(k) == 2 ^ k

\* bit i of a small non-negative integer widened to u64 ("as u64")
AsU64(n) == [i \in 0..63 |-> IF i > 30 THEN 0 ELSE (n \div Pow2(i)) % 2]

\* u64 << k
Shl(b, k) == [i \in 0..63 |-> IF i >= k THEN b[i - k] ELSE 0]

\* u64 | u64
BitOr(a, b) == [i \in 0..63 |-> IF a[i] = 1 \/ b[i] = 1 THEN 1 ELSE 0]

\* u64 & u64
BitAnd(a, b) == [i \in 0..63 |-> IF a[i] = 1 /\ b[i] = 1 THEN 1 ELSE 0]

RECURSIVE LimbVal(_, _, _)
LimbVal(b, j, i) ==
    IF i = 16 THEN 0
    ELSE b[16 * (j - 1) + i] * Pow2(i) + LimbVal(b, j, i + 1)

\* the four 16-bit limbs of a u64, least significant first
Limbs(b) == [j \in 1..4 |-> LimbVal(b, j, 0)]

U64Zero == <<0, 0, 0, 0>>

---------------------------------------------------------------------------
(* ffi.rs: wire layout *)

UVIO_TYPE_UVC == 117

UVIO_IOCTL_UVDEV_INFO_NR == 0

UVIO_IOCTL_ATT_NR == 1

UVIO_IOCTL_ADD_SECRET_NR == 2

UVIO_IOCTL_LIST_SECRETS_NR == 3

UVIO_IOCTL_LOCK_SECRETS_NR == 4

UVIO_ATT_USER_DATA_LEN == 256

UVIO_ATT_UID_LEN == 16

Field(n, s, a) == [name |-> n, size |-> s, align |-> a]

FU64(n) == Field(n, 8, 8)

FU32(n) == Field(n, 4, 4)

FU16(n) == Field(n, 2, 2)

FBytes(n, len) == Field(n, len, 1)

uvio_ioctl_cb ==
    << FU32("flags"), FU16("uv_rc"), FU16("uv_rrc"), FU64("argument_addr"),
       FU32("argument_len"), FBytes("reserved14", 44) >>

uvio_uvdev_info == << FU64("supp_uvio_cmds"), FU64("supp_uv_cmds") >>

uvio_attest ==
    << FU64("arcb_addr"), FU64("meas_addr"), FU64("add_data_addr"),
       FBytes("user_data", UVIO_ATT_USER_DATA_LEN),
       FBytes("config_uid", UVIO_ATT_UID_LEN),
       FU32("arcb_len"), FU32("meas_len"), FU32("add_data_len"),
       FU16("user_data_len"), FU16("reserved136") >>

StructNames == {"uvio_ioctl_cb", "uvio_uvdev_info", "uvio_attest"}

StructFields(s) ==
    CASE s = "uvio_ioctl_cb" -> uvio_ioctl_cb
      [] s = "uvio_uvdev_info" -> uvio_uvdev_info
      [] s = "uvio_attest" -> uvio_attest

AlignUp(n, a) == ((n + a - 1) \div a) * a

\* every field aligned to 8 bytes, as if all members were u64
FieldAlign_word(f) == 8

\* alignment a #[repr(C)] struct gives a field: its natural alignment
FieldAlign(f) == f.align

RECURSIVE FieldOffsets(_, _, _)
\* #[repr(C)]: fields in declaration order, each at the next aligned offset
FieldOffsets(fs, i, cur) ==
    IF i > Len(fs) THEN << >>
    ELSE LET off == AlignUp(cur, FieldAlign(fs[i]))
         IN  <<off>> \o FieldOffsets(fs, i + 1, off + fs[i].size)

RECURSIVE StructAlign(_, _)
StructAlign(fs, i) ==
    IF i > Len(fs) THEN 1
    ELSE LET r == StructAlign(fs, i + 1)
             a == FieldAlign(fs[i])
         IN  IF a > r THEN a ELSE r

\* std::mem::size_of of a #[repr(C)] struct
SizeOf(fs) ==
    LET offs == FieldOffsets(fs, 1, 0)
        n    == Len(fs)
        end  == IF n = 0 THEN 0 ELSE offs[n] + fs[n].size
    IN  AlignUp(end, StructAlign(fs, 1))

RECURSIVE SumSizes(_, _)
SumSizes(fs, n) == IF n = 0 THEN 0 ELSE fs[n].size + SumSizes(fs, n - 1)

\* the sizes the assert_size! lines state
AssertedSize(s) ==
    CASE s = "uvio_ioctl_cb" -> 64
      [] s = "uvio_uvdev_info" -> 16
      [] s = "uvio_attest" -> 312

---------------------------------------------------------------------------
(* ffi.rs: ioctl numbering *)

U8Max == 255

IOC_WRITE == 1

IOC_READ == 2

IOC_NRSHIFT == 0

IOC_TYPESHIFT == 8

IOC_SIZESHIFT == 16

IOC_DIRSHIFT == 30

\* _IOC_READ | _IOC_WRITE on u32
DirBits == Limbs(BitOr(AsU64(IOC_READ), AsU64(IOC_WRITE)))[1]

\* direction field holding the read bit only
iowr_readonly(ty, nr, size) ==
    Limbs(BitOr(BitOr(BitOr(Shl(AsU64(IOC_READ), IOC_DIRSHIFT),
                            Shl(AsU64(ty), IOC_TYPESHIFT)),
                      Shl(AsU64(nr), IOC_NRSHIFT)),
                Shl(AsU64(size), IOC_SIZESHIFT)))

\* type and number shifts swapped
iowr_swapped(ty, nr, size) ==
    Limbs(BitOr(BitOr(BitOr(Shl(AsU64(DirBits), IOC_DIRSHIFT),
                            Shl(AsU64(ty), IOC_NRSHIFT)),
                      Shl(AsU64(nr), IOC_TYPESHIFT)),
                Shl(AsU64(size), IOC_SIZESHIFT)))

\* corresponds to the __IOWR macro
iowr(ty, nr, size) ==
    Limbs(BitOr(BitOr(BitOr(Shl(AsU64(DirBits), IOC_DIRSHIFT),
                            Shl(AsU64(ty), IOC_TYPESHIFT)),
                      Shl(AsU64(nr), IOC_NRSHIFT)),
                Shl(AsU64(size), IOC_SIZESHIFT)))

\* corresponds to the UV_IOCTL macro
uv_ioctl(nr) == iowr(UVIO_TYPE_UVC, nr, SizeOf(uvio_ioctl_cb))

\* the four fields of the identifier, each shifted into place
IoctlFields(nr) ==
    << Shl(AsU64(DirBits), IOC_DIRSHIFT),
       Shl(AsU64(UVIO_TYPE_UVC), IOC_TYPESHIFT),
       Shl(AsU64(nr), IOC_NRSHIFT),
       Shl(AsU64(SizeOf(uvio_ioctl_cb)), IOC_SIZESHIFT) >>

InitFfiVars ==
    /\ nrIn = -1
    /\ idOut = U64Zero
    /\ structIn = "none"
    /\ sizeOut = 0
    /\ offsOut = << >>

\* evaluate uv_ioctl(nr) for a u8 sub-number
ComputeUvIoctl ==
    \E nr \in 0..U8Max :
        /\ nrIn' = nr
        /\ idOut' = uv_ioctl(nr)
        /\ UNCHANGED <<structIn, sizeOut, offsOut>>
        /\ UNCHANGED uvVars

\* evaluate size_of and the field offsets of one wire structure
ComputeLayout ==
    \E s \in StructNames :
        /\ structIn' = s
        /\ sizeOut' = SizeOf(StructFields(s))
        /\ offsOut' = FieldOffsets(StructFields(s), 1, 0)
        /\ UNCHANGED <<nrIn, idOut>>
        /\ UNCHANGED uvVars

---------------------------------------------------------------------------
(* uvdevice.rs: commands *)

RC_SUCCESS == 1

RC_MORE_DATA == 256

\* response codes the device may store: the eight codes the generic layer
\* owns (0x0000 0x0001 0x0002 0x0005 0x0030 0x0031 0x0032 0x0100) and
\* three it does not (0x0003 0x0101 0xffff)
RcValues == {0, 1, 2, 3, 5, 48, 49, 50, 256, 257, 65535}

RrcValues == {0, 1, 65535}

\* results of ioctl(2): -1 on failure, 0 or a positive value otherwise
IoctlRets == {-1, 0, 1}

None == [some |-> FALSE, val |-> ""]

Some(s) == [some |-> TRUE, val |-> s]

\* usize buffer lengths are four limbs: 0x1000 is <<4096, 0, 0, 0>>,
\* 0xffffffff is <<65535, 65535, 0, 0>>, 0x1_0000_0000 is <<0, 0, 1, 0>>

BufAddr == 8192

NoData == [some |-> FALSE, addr |-> 0, len |-> U64Zero]

\* UvCmd::data() returns None or a buffer at BufAddr

ExplainKinds == {"silent", "partial", "greedy"}

NrValues ==
    { UVIO_IOCTL_UVDEV_INFO_NR, UVIO_IOCTL_ATT_NR, UVIO_IOCTL_ADD_SECRET_NR,
      UVIO_IOCTL_LIST_SECRETS_NR, UVIO_IOCTL_LOCK_SECRETS_NR }

Cmd(n, d, e) == [nr |-> n, data |-> d, explain |-> e]

Buf(l) == [some |-> TRUE, addr |-> BufAddr, len |-> l]

\* implementations of the UvCmd trait: every sub-number, every kind of
\* payload and every kind of rc_fmt occurs, and each kind of rc_fmt occurs
\* with a payload that fits, with one that does not, and with none
Commands ==
    { Cmd(UVIO_IOCTL_UVDEV_INFO_NR, NoData, "silent"),
      Cmd(UVIO_IOCTL_UVDEV_INFO_NR, Buf(<<0, 0, 0, 0>>), "partial"),
      Cmd(UVIO_IOCTL_ATT_NR, Buf(<<4096, 0, 0, 0>>), "partial"),
      Cmd(UVIO_IOCTL_ATT_NR, NoData, "greedy"),
      Cmd(UVIO_IOCTL_ADD_SECRET_NR, Buf(<<65535, 65535, 0, 0>>), "greedy"),
      Cmd(UVIO_IOCTL_ADD_SECRET_NR, Buf(<<0, 0, 1, 0>>), "silent"),
      Cmd(UVIO_IOCTL_LIST_SECRETS_NR, Buf(<<4096, 0, 0, 0>>), "silent"),
      Cmd(UVIO_IOCTL_LIST_SECRETS_NR, Buf(<<1, 0, 1, 0>>), "partial"),
      Cmd(UVIO_IOCTL_LOCK_SECRETS_NR, NoData, "partial"),
      Cmd(UVIO_IOCTL_LOCK_SECRETS_NR, Buf(<<65535, 65535, 65535, 65535>>), "greedy") }

\* UvCmd::cmd
UvCmd_cmd(c) == uv_ioctl(c.nr)

\* UvCmd::data
UvCmd_data(c) == c.data

\* UvCmd::rc_fmt of three implementations: one that knows no code, one that
\* knows two codes of its own, one that answers for every pair
UvCmd_rc_fmt(c, rc, rrc) ==
    CASE c.explain = "silent" -> None
      [] c.explain = "partial" ->
            IF rc = 257 /\ rrc = 0 THEN Some("cmd: 0x0101 rrc 0")
            ELSE IF rc = 3 THEN Some("cmd: 0x0003")
            ELSE None
      [] c.explain = "greedy" -> Some("cmd: any code")

---------------------------------------------------------------------------
(* uvdevice.rs: IoctlCb *)

Reserved14 == [i \in 1..44 |-> 0]

\* usize -> u32 conversion that keeps the low 32 bits ("as u32")
TryIntoU32_truncating(len) == [ok |-> TRUE, val |-> <<len[1], len[2]>>]

\* usize -> u32 by try_into(): fails when the value needs more than 32 bits
TryIntoU32(len) ==
    IF len[3] = 0 /\ len[4] = 0
    THEN [ok |-> TRUE, val |-> <<len[1], len[2]>>]
    ELSE [ok |-> FALSE, val |-> <<0, 0>>]

\* block construction that keeps the response fields of the previous block
IoctlCb_new_stale(data, prev) ==
    IF ~data.some
    THEN [ok |-> TRUE,
          cb |-> [flags |-> 0, uv_rc |-> prev.uv_rc, uv_rrc |-> prev.uv_rrc,
                  argument_addr |-> 0, argument_len |-> <<0, 0>>,
                  reserved14 |-> Reserved14]]
    ELSE LET sz == TryIntoU32(data.len)
         IN  IF sz.ok
             THEN [ok |-> TRUE,
                   cb |-> [flags |-> 0, uv_rc |-> prev.uv_rc, uv_rrc |-> prev.uv_rrc,
                           argument_addr |-> data.addr, argument_len |-> sz.val,
                           reserved14 |-> Reserved14]]
             ELSE [ok |-> FALSE, cb |-> prev]

\* IoctlCb::new; prev is what the block's memory held before, returned
\* untouched when construction fails
IoctlCb_new(data, prev) ==
    IF ~data.some
    THEN [ok |-> TRUE,
          cb |-> [flags |-> 0, uv_rc |-> 0, uv_rrc |-> 0,
                  argument_addr |-> 0, argument_len |-> <<0, 0>>,
                  reserved14 |-> Reserved14]]
    ELSE LET sz == TryIntoU32(data.len)
         IN  IF sz.ok
             THEN [ok |-> TRUE,
                   cb |-> [flags |-> 0, uv_rc |-> 0, uv_rrc |-> 0,
                           argument_addr |-> data.addr, argument_len |-> sz.val,
                           reserved14 |-> Reserved14]]
             ELSE [ok |-> FALSE, cb |-> prev]

\* IoctlCb::rc
IoctlCb_rc(b) == b.uv_rc

\* IoctlCb::rrc
IoctlCb_rrc(b) == b.uv_rrc

---------------------------------------------------------------------------
(* uvdevice.rs: ioctl_raw, rc_fmt, send_cmd *)

\* only a negative return of ioctl() is an error
ioctl_raw_negative(ret) == IF ret < 0 THEN "Err" ELSE "Ok"

\* the match at the end of ioctl_raw: 0 is Ok, anything else the OS error
ioctl_raw(ret) == IF ret = 0 THEN "Ok" ELSE "Err"

Fmt(m, called, unreach) == [msg |-> m, cmdCalled |-> called, unreachable |-> unreach]

\* the command is asked before the generic table
rc_fmt_cmd_first(rc, rrc, c) ==
    LET s == UvCmd_rc_fmt(c, rc, rrc)
    IN  IF s.some THEN Fmt(s.val, 1, FALSE)
        ELSE IF rc = 0 THEN Fmt("invalid rc", 1, FALSE)
        ELSE IF rc = 2 THEN Fmt("invalid UV command", 1, FALSE)
        ELSE IF rc = 5 THEN Fmt("request has an invalid size", 1, FALSE)
        ELSE IF rc = 48 THEN Fmt("home address space control bit has R-bit set to one", 1, FALSE)
        ELSE IF rc = 49 THEN Fmt("access exception", 1, FALSE)
        ELSE IF rc = 50 THEN Fmt("request contains virtual address translating to an invalid address", 1, FALSE)
        ELSE Fmt("unexpected error-code", 1, FALSE)

\* rc_fmt: generic text, unreachable!() for the two success codes, else the
\* command's own text, else "unexpected error-code"
rc_fmt(rc, rrc, c) ==
    IF rc = 0 THEN Fmt("invalid rc", 0, FALSE)
    ELSE IF rc = 2 THEN Fmt("invalid UV command", 0, FALSE)
    ELSE IF rc = 5 THEN Fmt("request has an invalid size", 0, FALSE)
    ELSE IF rc = 48 THEN Fmt("home address space control bit has R-bit set to one", 0, FALSE)
    ELSE IF rc = 49 THEN Fmt("access exception", 0, FALSE)
    ELSE IF rc = 50 THEN Fmt("request contains virtual address translating to an invalid address", 0, FALSE)
    ELSE IF rc = RC_MORE_DATA THEN Fmt("This is no Error!!!!", 0, TRUE)
    ELSE IF rc = RC_SUCCESS THEN Fmt("This is no Error!!!!", 0, TRUE)
    ELSE LET s == UvCmd_rc_fmt(c, rc, rrc)
         IN  IF s.some THEN Fmt(s.val, 1, FALSE)
             ELSE Fmt("unexpected error-code", 1, FALSE)

Ret(k, rc, rrc, f) ==
    [kind |-> k, rc |-> rc, rrc |-> rrc, msg |-> f.msg,
     cmdCalled |-> f.cmdCalled, unreachable |-> f.unreachable]

NoFmt == Fmt("", 0, FALSE)

\* the match without the arm for RC_MORE_DATA
send_cmd_match_no_more_data(rc, rrc, c) ==
    IF rc = RC_SUCCESS THEN Ret("Success", 0, 0, NoFmt)
    ELSE LET f == rc_fmt(rc, rrc, c)
         IN  IF f.unreachable THEN Ret("Panic", 0, 0, f)
             ELSE Ret("UvError", rc, rrc, f)

\* the message is formatted before the codes are matched
send_cmd_match_eager_fmt(rc, rrc, c) ==
    LET f == rc_fmt(rc, rrc, c)
    IN  IF f.unreachable THEN Ret("Panic", 0, 0, f)
        ELSE IF rc = RC_SUCCESS THEN Ret("Success", 0, 0, f)
        ELSE IF rc = RC_MORE_DATA THEN Ret("MoreData", 0, 0, f)
        ELSE Ret("UvError", rc, rrc, f)

\* the match on (cb.rc(), cb.rrc()) that ends send_cmd
send_cmd_match(rc, rrc, c) ==
    IF rc = RC_SUCCESS THEN Ret("Success", 0, 0, NoFmt)
    ELSE IF rc = RC_MORE_DATA THEN Ret("MoreData", 0, 0, NoFmt)
    ELSE LET f == rc_fmt(rc, rrc, c)
         IN  IF f.unreachable THEN Ret("Panic", 0, 0, f)
             ELSE Ret("UvError", rc, rrc, f)

NoOutcome == [kind |-> "None", rc |-> 0, rrc |-> 0, msg |-> ""]

Outcome(r) == [kind |-> r.kind, rc |-> r.rc, rrc |-> r.rrc, msg |-> r.msg]

ZeroCb ==
    [flags |-> 0, uv_rc |-> 0, uv_rrc |-> 0, argument_addr |-> 0,
     argument_len |-> <<0, 0>>, reserved14 |-> Reserved14]

MaxCalls == 3

InitUvVars ==
    /\ pc = "Idle"
    /\ cmd = [nr |-> UVIO_IOCTL_UVDEV_INFO_NR, data |-> NoData, explain |-> "silent"]
    /\ cb = ZeroCb
    /\ prevCb = ZeroCb
    /\ cbAtIoctl = ZeroCb
    /\ cmdAtIoctl = U64Zero
    /\ ioctlRet = 0
    /\ outcome = NoOutcome
    /\ calls = 0
    /\ ioctls = 0
    /\ specErrs = 0
    /\ callIoctls = 0
    /\ cmdFmtCalls = 0
    /\ cmdFmtRc = -1
    /\ unreachableHit = FALSE

Init == InitUvVars /\ InitFfiVars

\* send_cmd up to the ioctl: IoctlCb::new(cmd.data())? and the entry of
\* ioctl_raw
SendCmdEnter(c) ==
    /\ pc = "Idle"
    /\ calls < MaxCalls
    /\ LET r == IoctlCb_new(UvCmd_data(c), cb)
       IN  /\ cb' = r.cb
           /\ prevCb' = cb
           /\ IF r.ok
              THEN /\ pc' = "Built"
                   /\ outcome' = NoOutcome
                   /\ specErrs' = specErrs
              ELSE /\ pc' = "Idle"
                   /\ outcome' = [kind |-> "SpecificationError", rc |-> 0, rrc |-> 0,
                                  msg |-> "passed data too large"]
                   /\ specErrs' = specErrs + 1
    /\ cmd' = c
    /\ calls' = calls + 1
    /\ callIoctls' = 0
    /\ cmdFmtCalls' = 0
    /\ cmdFmtRc' = -1
    /\ unreachableHit' = FALSE
    /\ cbAtIoctl' = ZeroCb
    /\ cmdAtIoctl' = U64Zero
    /\ ioctlRet' = 0
    /\ UNCHANGED ioctls
    /\ UNCHANGED ffiVars

\* ioctl(raw_fd, cmd, cb.as_ptr_mut()): the device may store a response and
\* reason code in the block and returns an int
Ioctl ==
    /\ pc = "Built"
    /\ cbAtIoctl' = cb
    /\ cmdAtIoctl' = UvCmd_cmd(cmd)
    /\ ioctls' = ioctls + 1
    /\ callIoctls' = callIoctls + 1
    /\ pc' = "Dispatched"
    /\ UNCHANGED <<cmd, prevCb, outcome, calls, specErrs, cmdFmtCalls, cmdFmtRc,
                   unreachableHit>>
    /\ UNCHANGED ffiVars
    /\ \E ret \in IoctlRets :
          /\ ioctlRet' = ret
          /\ \/ cb' = cb
             \/ \E rc \in RcValues, rrc \in RrcValues :
                   cb' = [cb EXCEPT !.uv_rc = rc, !.uv_rrc = rrc]

\* an interrupted or failed ioctl is issued again
SendCmdReturn_retry ==
    /\ pc = "Dispatched"
    /\ IF ioctl_raw(ioctlRet) = "Err"
       THEN /\ pc' = "Built"
            /\ UNCHANGED <<outcome, cmdFmtCalls, cmdFmtRc, unreachableHit>>
       ELSE LET r == send_cmd_match(IoctlCb_rc(cb), IoctlCb_rrc(cb), cmd)
            IN  /\ pc' = "Idle"
                /\ outcome' = Outcome(r)
                /\ cmdFmtCalls' = cmdFmtCalls + r.cmdCalled
                /\ cmdFmtRc' = IF r.cmdCalled = 1 THEN IoctlCb_rc(cb) ELSE cmdFmtRc
                /\ unreachableHit' = r.unreachable
    /\ UNCHANGED <<cmd, cb, prevCb, cbAtIoctl, cmdAtIoctl, ioctlRet, calls, ioctls,
                   specErrs, callIoctls>>
    /\ UNCHANGED ffiVars

\* send_cmd after the ioctl returned: the match in ioctl_raw, the ? on its
\* result, and the match on the codes read back from the block
SendCmdReturn ==
    /\ pc = "Dispatched"
    /\ pc' = "Idle"
    /\ IF ioctl_raw(ioctlRet) = "Err"
       THEN /\ outcome' = [kind |-> "OsError", rc |-> 0, rrc |-> 0, msg |-> "last_os_error"]
            /\ UNCHANGED <<cmdFmtCalls, cmdFmtRc, unreachableHit>>
       ELSE LET r == send_cmd_match(IoctlCb_rc(cb), IoctlCb_rrc(cb), cmd)
            IN  /\ outcome' = Outcome(r)
                /\ cmdFmtCalls' = cmdFmtCalls + r.cmdCalled
                /\ cmdFmtRc' = IF r.cmdCalled = 1 THEN IoctlCb_rc(cb) ELSE cmdFmtRc
                /\ unreachableHit' = r.unreachable
    /\ UNCHANGED <<cmd, cb, prevCb, cbAtIoctl, cmdAtIoctl, ioctlRet, calls, ioctls,
                   specErrs, callIoctls>>
    /\ UNCHANGED ffiVars

Next ==
    \/ \E c \in Commands : SendCmdEnter(c)
    \/ Ioctl
    \/ SendCmdReturn

Spec == Init /\ [][Next]_vars

NextFfi ==
    \/ ComputeUvIoctl
    \/ ComputeLayout

SpecFfi == Init /\ [][NextFfi]_vars

TypeOK ==
    /\ pc \in {"Idle", "Built", "Dispatched"}
    /\ cmd \in Commands
    /\ calls \in 0..MaxCalls

---------------------------------------------------------------------------
(* Properties *)

\* the codes the generic layer owns as errors
GenericRcs == {0, 2, 5, 48, 49, 50}

\* the two success codes
SuccessRcs == {1, 256}

\* the fixed text documented for a generic code
DocumentedText(rc) ==
    CASE rc = 0 -> "invalid rc"
      [] rc = 2 -> "invalid UV command"
      [] rc = 5 -> "request has an invalid size"
      [] rc = 48 -> "home address space control bit has R-bit set to one"
      [] rc = 49 -> "access exception"
      [] rc = 50 -> "request contains virtual address translating to an invalid address"

\* a send_cmd has returned after its ioctl returned 0, so that the codes
\* were read back from the block
CodesReadBack == pc = "Idle" /\ callIoctls = 1 /\ ioctlRet = 0

UvErr(rc, rrc, m) == [kind |-> "UvError", rc |-> rc, rrc |-> rrc, msg |-> m]

\* C1: for every (rc, rrc) read back after an ioctl that succeeded, send_cmd
\* yields Success for rc 0x0001 and MoreData for rc 0x0100 whatever rrc is;
\* a Uv error carrying rc, rrc and the documented text for the six generic
\* codes; and a Uv error with "unexpected error-code" for any other pair
\* the command's rc_fmt has no text for.
C1_ResponseCodeTable ==
    CodesReadBack =>
        LET rc == cb.uv_rc
            rrc == cb.uv_rrc
        IN  /\ rc = 1 => outcome.kind = "Success"
            /\ rc = 256 => outcome.kind = "MoreData"
            /\ rc \in GenericRcs => outcome = UvErr(rc, rrc, DocumentedText(rc))
            /\ (rc \notin GenericRcs \cup SuccessRcs /\ ~UvCmd_rc_fmt(cmd, rc, rrc).some)
                  => outcome = UvErr(rc, rrc, "unexpected error-code")

C1_Witness ==
    /\ CodesReadBack
    /\ cb.uv_rc = 256
    /\ cb.uv_rrc = 65535
    /\ outcome.kind = "MoreData"

\* C2: when rc is neither a success code nor one of the six generic codes
\* and the command's rc_fmt has text for (rc, rrc), the error message is
\* that text and not "unexpected error-code"; when rc is one of the six
\* generic codes the message is the generic text whatever the command's
\* rc_fmt would answer.
C2_CommandTextPrecedence ==
    CodesReadBack =>
        LET rc == cb.uv_rc
            rrc == cb.uv_rrc
            own == UvCmd_rc_fmt(cmd, rc, rrc)
        IN  /\ (rc \notin GenericRcs \cup SuccessRcs /\ own.some)
                  => /\ outcome.kind = "UvError"
                     /\ outcome.msg = own.val
                     /\ outcome.msg # "unexpected error-code"
            /\ rc \in GenericRcs
                  => /\ outcome.kind = "UvError"
                     /\ outcome.msg = DocumentedText(rc)

C2_Witness ==
    /\ CodesReadBack
    /\ cmd.explain = "greedy"
    /\ cb.uv_rc = 2
    /\ outcome.msg = "invalid UV command"

\* the payload of the running / last call needs more than 32 bits of length
PayloadTooLarge == cmd.data.some /\ (cmd.data.len[3] # 0 \/ cmd.data.len[4] # 0)

\* C3: a send_cmd whose payload is longer than 0xffffffff bytes returns the
\* specification error and issues no ioctl; a payload of 0 to 0xffffffff
\* bytes, or none, never makes block construction fail.
C3_PayloadLengthLimit ==
    calls > 0 =>
        /\ PayloadTooLarge
              => /\ pc = "Idle"
                 /\ outcome.kind = "SpecificationError"
                 /\ callIoctls = 0
        /\ ~PayloadTooLarge => outcome.kind # "SpecificationError"
        /\ pc = "Idle" => ioctls = calls - specErrs

C3_Witness ==
    /\ cmd.data.some
    /\ cmd.data.len = <<0, 0, 1, 0>>
    /\ outcome.kind = "SpecificationError"
    /\ ioctls = 0
    /\ calls = 1

\* the outcome the codes in the block decide
DecidedByCodes ==
    /\ outcome.kind \in {"Success", "MoreData", "UvError"}
    /\ outcome.kind = "Success" <=> cb.uv_rc = 1
    /\ outcome.kind = "MoreData" <=> cb.uv_rc = 256
    /\ outcome.kind = "UvError" => outcome.rc = cb.uv_rc /\ outcome.rrc = cb.uv_rrc

\* C4 as stated: send_cmd returns the OS error exactly when ioctl returned a
\* negative value, and decides from the codes in the block for every
\* non-negative value.
C4_Original ==
    (pc = "Idle" /\ callIoctls = 1) =>
        /\ outcome.kind = "OsError" <=> ioctlRet < 0
        /\ ioctlRet >= 0 => DecidedByCodes

\* C4 amended: send_cmd returns the OS error exactly when ioctl returned a
\* value other than 0, at once, without reading the codes in the block (even
\* a success code) and without a second ioctl; when ioctl returned 0 the
\* outcome is decided from the codes read back from the block.
C4_OsErrorOnNonZero ==
    (pc = "Idle" /\ callIoctls >= 1) =>
        /\ callIoctls = 1
        /\ outcome.kind = "OsError" <=> ioctlRet # 0
        /\ ioctlRet # 0 => cmdFmtCalls = 0 /\ outcome.rc = 0 /\ outcome.rrc = 0
        /\ ioctlRet = 0 => DecidedByCodes

C4_Witness ==
    /\ pc = "Idle"
    /\ callIoctls = 1
    /\ ioctlRet = 1
    /\ cb.uv_rc = 1
    /\ outcome.kind = "OsError"

TerminalKinds == {"OsError", "Success", "MoreData", "UvError"}

\* the operation identifier of sub-number nr, as limbs of 0xc0407500 + nr
OperationId(nr) == <<29952 + nr, 49216, 0, 0>>

C5_Positions ==
    /\ pc = "Built" => callIoctls = 0 /\ outcome.kind = "None"
    /\ pc = "Dispatched"
          => /\ callIoctls = 1
             /\ outcome.kind = "None"
             /\ cmdAtIoctl = OperationId(cmd.nr)
    /\ (pc = "Idle" /\ calls > 0)
          => IF outcome.kind = "SpecificationError"
             THEN callIoctls = 0
             ELSE /\ callIoctls = 1
                  /\ outcome.kind \in TerminalKinds
                  /\ cmdAtIoctl = OperationId(cmd.nr)
    /\ ioctls <= calls
    /\ pc = "Idle" => ioctls = calls - specErrs

C5_Steps ==
    /\ pc = "Built" => pc' = "Dispatched" /\ ioctls' = ioctls + 1
    /\ pc = "Dispatched" => pc' = "Idle" /\ ioctls' = ioctls /\ outcome'.kind \in TerminalKinds
    /\ pc = "Idle" => ioctls' = ioctls

\* C5: a send_cmd whose block was built goes Built -> Dispatched -> one of
\* OsError, Success, MoreData, UvError: it issues exactly one ioctl, with the
\* command's operation identifier, and no outcome leads to a second one;
\* after n calls the number of ioctls is at most n and equals the number of
\* calls that did not end in the specification error.
C5_OneIoctlPerCall == [](C5_Positions) /\ [][C5_Steps]_vars

C5_Witness ==
    /\ pc = "Idle"
    /\ calls = 2
    /\ specErrs = 1
    /\ ioctls = 1
    /\ outcome.kind = "OsError"

ZeroU64 == [i \in 0..63 |-> 0]

\* C6: for every sub-number nr in 0..255, uv_ioctl(nr) is
\* ((READ|WRITE) << 30) | (117 << 8) | (nr << 0) | (64 << 16) with READ = 2 and
\* WRITE = 1, i.e. 0xc0407500 + nr; the four bit fields do not overlap;
\* uv_ioctl(1) is 0xc0407501; and the identifiers of sub-numbers 0..4 are
\* pairwise distinct and differ only in the low byte.
C6_IoctlEncoding ==
    nrIn >= 0 =>
        /\ idOut = <<117 * 256 + nrIn, (2 + 1) * 16384 + 64, 0, 0>>
        /\ \A i \in 1..4 : \A j \in 1..4 :
              i # j => BitAnd(IoctlFields(nrIn)[i], IoctlFields(nrIn)[j]) = ZeroU64
        /\ nrIn = 1 => idOut = <<29953, 49216, 0, 0>>
        /\ nrIn \in NrValues =>
              \A other \in NrValues \ {nrIn} :
                  LET o == uv_ioctl(other)
                  IN  /\ o # idOut
                      /\ o[1] \div 256 = idOut[1] \div 256
                      /\ o[2] = idOut[2] /\ o[3] = idOut[3] /\ o[4] = idOut[4]

C6_Witness ==
    /\ nrIn = 255
    /\ idOut = <<30207, 49216, 0, 0>>

\* C7 as stated: the identifier is (2) << 30 | nr << 0 | 64 << 16 | 117 << 8,
\* and sub-number 1 encodes to 0xc0407501.
C7_Original ==
    nrIn >= 0 =>
        /\ idOut = Limbs(BitOr(BitOr(BitOr(Shl(AsU64(2), 30), Shl(AsU64(nrIn), 0)),
                                     Shl(AsU64(64), 16)),
                               Shl(AsU64(117), 8)))
        /\ nrIn = 1 => idOut = <<29953, 49216, 0, 0>>

\* C7 amended: the identifier is (2|1) << 30 | nr << 0 | 64 << 16 | 117 << 8,
\* a value that fits 32 bits, and sub-number 1 encodes to 0xc0407501.
C7_DirectionReadWrite ==
    nrIn >= 0 =>
        /\ idOut = Limbs(BitOr(BitOr(BitOr(Shl(AsU64(3), 30), Shl(AsU64(nrIn), 0)),
                                     Shl(AsU64(64), 16)),
                               Shl(AsU64(117), 8)))
        /\ idOut[2] \div 16384 = 3
        /\ nrIn = 1 => idOut = <<29953, 49216, 0, 0>>

C7_Witness ==
    /\ nrIn = 1
    /\ idOut[1] = 29953
    /\ idOut[2] = 49216

\* the block handed to the device by the running / last call is freshly built
FreshBlock ==
    /\ cbAtIoctl.flags = 0
    /\ cbAtIoctl.uv_rc = 0
    /\ cbAtIoctl.uv_rrc = 0
    /\ \A i \in 1..44 : cbAtIoctl.reserved14[i] = 0
    /\ Len(cbAtIoctl.reserved14) = 44
    /\ IF cmd.data.some
       THEN /\ cbAtIoctl.argument_addr = cmd.data.addr
            /\ <<cbAtIoctl.argument_len[1], cbAtIoctl.argument_len[2], 0, 0>> = cmd.data.len
       ELSE /\ cbAtIoctl.argument_addr = 0
            /\ cbAtIoctl.argument_len = <<0, 0>>

\* C8: in any sequence of calls the block handed to the device is built for
\* that call: flags, both codes and the reserved bytes are zero whatever an
\* earlier call left behind, address and length are zero without payload and
\* the buffer's address and exact length with one; so a device that returns
\* 0 without writing the block yields the Uv error "invalid rc" with rc 0.
C8_FreshControlBlock ==
    callIoctls >= 1 =>
        /\ FreshBlock
        /\ (pc = "Idle" /\ ioctlRet = 0 /\ cb = cbAtIoctl)
              => outcome = UvErr(0, 0, "invalid rc")

C8_Witness ==
    /\ calls = 2
    /\ pc = "Idle"
    /\ prevCb.uv_rc = 1
    /\ prevCb.uv_rrc = 65535
    /\ cmd.data.some
    /\ cmd.data.len = <<65535, 65535, 0, 0>>
    /\ ioctlRet = 0
    /\ cb = cbAtIoctl
    /\ outcome.msg = "invalid rc"

RECURSIVE PlainOffsets(_, _)
\* offsets when fields simply follow one another
PlainOffsets(fs, n) ==
    IF n = 0 THEN << >> ELSE PlainOffsets(fs, n - 1) \o <<SumSizes(fs, n - 1)>>

\* the documented totals
DocumentedSize(s) ==
    CASE s = "uvio_ioctl_cb" -> 4 + 2 + 2 + 8 + 4 + 44
      [] s = "uvio_uvdev_info" -> 8 + 8
      [] s = "uvio_attest" -> 8 + 8 + 8 + 256 + 16 + 4 + 4 + 4 + 2 + 2

\* C9: the size of each wire structure is the plain sum of its field widths,
\* every field sits at its naturally aligned offset with no padding before
\* it or at the end: 64 bytes for the control block, 16 for the device-info
\* bitmap, 312 for the attestation block; and the size fed into the
\* operation identifier is that same 64.
C9_WireSizes ==
    /\ structIn # "none" =>
          LET fs == StructFields(structIn)
          IN  /\ sizeOut = SumSizes(fs, Len(fs))
              /\ sizeOut = DocumentedSize(structIn)
              /\ sizeOut = AssertedSize(structIn)
              /\ offsOut = PlainOffsets(fs, Len(fs))
              /\ \A i \in 1..Len(fs) : offsOut[i] % fs[i].align = 0
    /\ structIn = "uvio_ioctl_cb" => sizeOut = 64
    /\ structIn = "uvio_uvdev_info" => sizeOut = 16
    /\ structIn = "uvio_attest" => sizeOut = 312
    /\ nrIn >= 0 => (idOut[2] % 16384) = 64

C9_Witness ==
    /\ structIn = "uvio_attest"
    /\ sizeOut = 312
    /\ nrIn >= 0

\* the codes UvCmd::rc_fmt need not handle
OwnedRcs == {0, 1, 2, 5, 48, 49, 50, 256}

\* C10: no send_cmd executes an unreachable!() arm of rc_fmt; the command's
\* rc_fmt is invoked at most once per call and only with an rc outside
\* 0x0000 0x0001 0x0002 0x0005 0x0030 0x0031 0x0032 0x0100, and never in a
\* call that ends in Success, MoreData, the OS error or the specification
\* error.
C10_NoUnreachable ==
    /\ ~unreachableHit
    /\ outcome.kind # "Panic"
    /\ cmdFmtCalls <= 1
    /\ cmdFmtCalls = 1 => cmdFmtRc \notin OwnedRcs /\ outcome.kind = "UvError"
    /\ cmdFmtCalls = 0 => cmdFmtRc = -1
    /\ outcome.kind \in {"Success", "MoreData", "OsError", "SpecificationError"}
          => cmdFmtCalls = 0

C10_Witness ==
    /\ pc = "Idle"
    /\ cmdFmtCalls = 1
    /\ cmdFmtRc = 257
    /\ cmd.explain = "partial"
    /\ outcome.kind = "UvError"

====
